---- MODULE Spec2Model ----
(***************************************************************************)
(* A model of rust/net/src/connect_state.rs: ConnectState::connect_ws and  *)
(* ConnectState::connect_attested_ws, run by several concurrent callers    *)
(* over one tokio::sync::RwLock<ConnectState>.                             *)
(*                                                                         *)
(* The multi-route attempt (crate::infra::route::connect) and the outcome  *)
(* record (ConnectionOutcomes) live in libsignal_net_infra; they are       *)
(* modelled from the specification's sections 4.2 and 4.3.                 *)
(***************************************************************************)
EXTENDS Integers, Sequences, FiniteSets, TLC

(* ------------------------------ bounds -------------------------------- *)

\* Number of connect calls made on the shared state.
NumCalls == 3

\* Number of distinct candidate routes.
NumRoutes == 2

\* The environment starts calls only up to this virtual time (seconds).
MaxTime == 0

\* Config.connect_timeout, in seconds.
ConnectTimeout == 1

\* The largest value of an outcome parameter a caller chooses for itself.
MaxParam == 2

\* The scorer on its own is followed up to this time (seconds).
MaxClock == 4

(* ------------------- SUGGESTED_CONNECT_PARAMS ------------------------- *)

AgeCutoff == 300

CooldownGrowthFactor == 10

MaxCount == 5

MaxDelay == 30

CountGrowthFactor == 10

\* The "base" of the cooldown formula of section 4.2.
CooldownBase == 1

SuggestedConnectParams ==
    [age_cutoff |-> AgeCutoff,
     cooldown_growth_factor |-> CooldownGrowthFactor,
     max_count |-> MaxCount,
     max_delay |-> MaxDelay,
     count_growth_factor |-> CountGrowthFactor]

(* ------------------------------ values -------------------------------- *)

Calls == 1..NumCalls

Routes == 1..NumRoutes

NoPayload == "none"

\* ErrorClass, the result of WebSocketServiceConnectError::classify.
ErrorClasses == {"Intermittent", "RetryAt", "Fatal"}

\* Break payloads a caller-supplied on_error of connect_ws may return.
CallerPayloads == {"E1", "E2"}

\* crate::enclave::Error::WebSocketConnect(error), by the class of error.
WebSocketConnect(e) == "WebSocketConnect(" \o e \o ")"

ConnectionTimedOut == "ConnectionTimedOut"

\* The error of a failed attestation handshake.
HandshakeError == "AttestationError"

\* ControlFlow<E>: the classifier's decision.
Continue == [flow |-> "Continue", payload |-> NoPayload]

Break(p) == [flow |-> "Break", payload |-> p]

\* Result<(Connection, RouteInfo), TimeoutOr<ConnectError<E>>>
OkResult(r) ==
    [tag |-> "Ok", route |-> r, payload |-> NoPayload, attempt_duration |-> 0]

TimeoutResult(d) ==
    [tag |-> "Timeout", route |-> 0, payload |-> NoPayload, attempt_duration |-> d]

NoResolvedRoutes ==
    [tag |-> "NoResolvedRoutes", route |-> 0, payload |-> NoPayload,
     attempt_duration |-> 0]

AllAttemptsFailed ==
    [tag |-> "AllAttemptsFailed", route |-> 0, payload |-> NoPayload,
     attempt_duration |-> 0]

FatalConnect(p) ==
    [tag |-> "FatalConnect", route |-> 0, payload |-> p, attempt_duration |-> 0]

NoResult ==
    [tag |-> "None", route |-> 0, payload |-> NoPayload, attempt_duration |-> 0]

\* Result<(AttestedConnection, RouteInfo), crate::enclave::Error>
AttestedOk(r) == [tag |-> "Ok", route |-> r, err |-> NoPayload]

AttestedErr(e) == [tag |-> "Err", route |-> 0, err |-> e]

NoAttested == [tag |-> "None", route |-> 0, err |-> NoPayload]

Min(a, b) == IF a <= b THEN a ELSE b

RECURSIVE Pow(_, _)
Pow(b, n) == IF n = 0 THEN 1 ELSE b * Pow(b, n - 1)

(* ------------------------------- state -------------------------------- *)

VARIABLES
    connect_params,
                 \* Config.connect_params, as ConnectionOutcomes keeps them
    now,         \* the virtual clock (tokio::time::Instant::now)
    record,      \* ConnectState.attempts_record
    readers,     \* the calls holding a read guard of the RwLock
    writer,      \* the calls holding the write guard: one at most
    queue,       \* the calls waiting for the RwLock, first come first
    pc,          \* where each call is
    kind,        \* "ws": connect_ws called directly; "attested"; "none"
    routes,      \* the call's ranked routes
    idx,         \* the index in routes of the attempt in flight (or the last)
    updates,     \* the outcome updates route::connect has collected
    result,      \* what the timeout-wrapped attempt resolved to
    startedAt,   \* when the call was made
    timerStart,  \* when tokio::time::timeout started
    finishedAt,  \* updates.finished_at
    brk,         \* the payload of the classifier's Break, if it broke
    classified,  \* how many times on_error has been invoked
    event,       \* what this step resolved or returned, if it did
    error        \* the class of the error on_error got in this step, if any

vars == <<connect_params, now, record, readers, writer, queue, pc, kind,
          routes, idx, updates,
          result, startedAt, timerStart, finishedAt, brk, classified, event,
          error>>

lockVars == <<readers, writer, queue>>

\* The locals of a call.
locals == <<kind, routes, idx, updates, result, startedAt, timerStart,
            finishedAt, brk, classified>>

(* ------------------ outcome record (ConnectionOutcomes) --------------- *)

\* ConnectionOutcomes::new(connect_params): no route has a record yet.
EmptyRecord == [r \in {} |-> [weight |-> 0, last |-> 0]]

\* PriorWeight with a slip: a record is kept however old it is.
PriorWeightNeverStale(rec, r, t) ==
    IF r \in DOMAIN rec THEN rec[r].weight ELSE 0

\* The failure weight that survives until time t: a record older than
\* age_cutoff is discarded.
PriorWeight(rec, r, t) ==
    IF r \in DOMAIN rec /\ ~(t - rec[r].last > connect_params.age_cutoff)
    THEN rec[r].weight
    ELSE 0

\* recordOutcome with a slip: the failure weight does not saturate.
RecordOutcomeUnsaturated(rec, r, success, t) ==
    LET w == IF success
             THEN 0
             ELSE PriorWeight(rec, r, t) + connect_params.count_growth_factor
    IN  (r :> [weight |-> w, last |-> t]) @@ rec

\* recordOutcome(route, success, now)
RecordOutcome(rec, r, success, t) ==
    LET w == IF success
             THEN 0
             ELSE Min(connect_params.max_count,
                      PriorWeight(rec, r, t) + connect_params.count_growth_factor)
    IN  (r :> [weight |-> w, last |-> t]) @@ rec

\* apply_outcome_updates(updates, finished_at): the updates in sequence.
RECURSIVE ApplyOutcomeUpdates(_, _, _)
ApplyOutcomeUpdates(rec, ups, when) ==
    IF ups = <<>>
    THEN rec
    ELSE ApplyOutcomeUpdates(
             RecordOutcome(rec, Head(ups).route, Head(ups).success, when),
             Tail(ups), when)

\* cooldownFor(route, now)
CooldownFor(rec, r, t) ==
    LET w == PriorWeight(rec, r, t)
    IN  IF w = 0
        THEN 0
        ELSE Min(connect_params.max_delay,
                 CooldownBase * Pow(connect_params.cooldown_growth_factor, w))

\* The sequences over the routes of rs, each route once.
Orders(rs) ==
    {s \in [1..Cardinality(rs) -> rs] : \A i, j \in DOMAIN s : i # j => s[i] # s[j]}

\* rank with a slip: the cooldowns are ignored.
RankedAnyOrder(rec, rs, t) == Orders(rs)

\* rank(routes, now): ascending cooldown, ties in any order.
Ranked(rec, rs, t) ==
    {s \in Orders(rs) :
        \A i, j \in DOMAIN s :
            i < j => CooldownFor(rec, s[i], t) <= CooldownFor(rec, s[j], t)}

(* ------------------------ events and Init ----------------------------- *)

\* A return of connect_ws (ws) or of connect_attested_ws (att) to the caller
\* by the call c, which had collected the updates ups.
WsReturn(c, res, ups) ==
    [call |-> c, kind |-> "ws", ws |-> res, att |-> NoAttested,
     updates |-> ups, untried |-> <<>>]

AttestedReturn(c, a, ups) ==
    [call |-> c, kind |-> "attested", ws |-> NoResult, att |-> a,
     updates |-> ups, untried |-> <<>>]

\* The attempt of the call c resolved to res with the updates ups, leaving
\* the routes rest untried.
Resolution(c, res, ups, rest) ==
    [call |-> c, kind |-> "resolved", ws |-> res, att |-> NoAttested,
     updates |-> ups, untried |-> rest]

NoEvent ==
    [call |-> 0, kind |-> "none", ws |-> NoResult, att |-> NoAttested,
     updates |-> <<>>, untried |-> <<>>]

\* ConnectState::new_with_transport_connector, and no call made yet.
Init ==
    /\ connect_params = SuggestedConnectParams
    /\ now = 0
    /\ record = EmptyRecord
    /\ readers = {}
    /\ writer = {}
    /\ queue = <<>>
    /\ pc = [c \in Calls |-> "idle"]
    /\ kind = [c \in Calls |-> "none"]
    /\ routes = [c \in Calls |-> <<>>]
    /\ idx = [c \in Calls |-> 0]
    /\ updates = [c \in Calls |-> <<>>]
    /\ result = [c \in Calls |-> NoResult]
    /\ startedAt = [c \in Calls |-> 0]
    /\ timerStart = [c \in Calls |-> 0]
    /\ finishedAt = [c \in Calls |-> 0]
    /\ brk = [c \in Calls |-> NoPayload]
    /\ classified = [c \in Calls |-> 0]
    /\ event = NoEvent
    /\ error = NoPayload

(* ------------------------ tokio::sync::RwLock ------------------------- *)

\* The lock is fair: requests are served first come first, so a queued
\* write request holds back every read request made after it.
AtHead(c) == queue # <<>> /\ Head(queue) = c

CanRead(c) == AtHead(c) /\ writer = {}

\* The write lock with a slip: it is granted while read guards are held.
CanWriteDespiteReaders(c) == AtHead(c) /\ writer = {}

CanWrite(c) == AtHead(c) /\ writer = {} /\ readers = {}

(* ----------------------- connect_ws, step by step ---------------------- *)

\* connect_ws is called: the call asks for the read lock (this.read()).
\* Calls are numbered in the order they are made.
Call(c, k) ==
    /\ pc[c] = "idle"
    /\ \A b \in Calls : b < c => pc[b] # "idle"
    /\ now <= MaxTime
    /\ pc' = [pc EXCEPT ![c] = "read"]
    /\ kind' = [kind EXCEPT ![c] = k]
    /\ startedAt' = [startedAt EXCEPT ![c] = now]
    /\ queue' = Append(queue, c)
    /\ event' = NoEvent
    /\ error' = NoPayload
    /\ UNCHANGED <<connect_params, now,
                   record, readers, writer, routes, idx, updates, result,
                   timerStart, finishedAt, brk, classified>>

\* The read lock is granted; the provider's routes rs are collected and
\* ranked against the record, and the timeout-wrapped attempt starts on the
\* first of them.
AcquireRead(c, rs) ==
    /\ pc[c] = "read"
    /\ CanRead(c)
    /\ \E order \in Ranked(record, rs, now) :
        /\ routes' = [routes EXCEPT ![c] = order]
        /\ idx' = [idx EXCEPT ![c] = IF order = <<>> THEN 0 ELSE 1]
    /\ queue' = Tail(queue)
    /\ readers' = readers \cup {c}
    /\ timerStart' = [timerStart EXCEPT ![c] = now]
    /\ pc' = [pc EXCEPT ![c] = "connect"]
    /\ event' = NoEvent
    /\ error' = NoPayload
    /\ UNCHANGED <<connect_params, now,
                   record, writer, kind, updates, result, startedAt,
                   finishedAt, brk, classified>>

\* The attempt resolved to res with the updates ups before the deadline:
\* route::connect is over and its routes are gone, the read guard is dropped
\* and the call asks for the write lock.
Resolve(c, res, ups) ==
    /\ result' = [result EXCEPT ![c] = res]
    /\ updates' = [updates EXCEPT ![c] = ups]
    /\ finishedAt' = [finishedAt EXCEPT ![c] = now]
    /\ readers' = readers \ {c}
    /\ queue' = Append(queue, c)
    /\ pc' = [pc EXCEPT ![c] = "write"]
    /\ routes' = [routes EXCEPT ![c] = <<>>]
    /\ event' = Resolution(c, res, ups,
                           SubSeq(routes[c], idx[c] + 1, Len(routes[c])))

\* The outcome update for one route.
Outcome(r, ok) == [route |-> r, success |-> ok]

\* NoRoutes with a slip: an empty route list counts as all attempts failed.
NoRoutesAllFailed(c) ==
    /\ pc[c] = "connect"
    /\ routes[c] = <<>>
    /\ Resolve(c, AllAttemptsFailed, updates[c])
    /\ error' = NoPayload
    /\ UNCHANGED <<connect_params, now,
                   record, writer, kind, idx, startedAt, timerStart, brk,
                   classified>>

\* The provider yielded no route.
NoRoutes(c) ==
    /\ pc[c] = "connect"
    /\ routes[c] = <<>>
    /\ Resolve(c, NoResolvedRoutes, updates[c])
    /\ error' = NoPayload
    /\ UNCHANGED <<connect_params, now,
                   record, writer, kind, idx, startedAt, timerStart, brk,
                   classified>>

\* The attempt on the current route yields a connection.
AttemptSucceeds(c) ==
    /\ pc[c] = "connect"
    /\ idx[c] >= 1
    /\ Resolve(c, OkResult(routes[c][idx[c]]),
               Append(updates[c], Outcome(routes[c][idx[c]], TRUE)))
    /\ error' = NoPayload
    /\ UNCHANGED <<connect_params, now,
                   record, writer, kind, idx, startedAt, timerStart, brk,
                   classified>>

\* The classifier with a slip: only a Fatal error stops the attempt.
AttestedOnErrorFatalOnly(e) ==
    IF e = "Fatal" THEN Break(WebSocketConnect(e)) ELSE Continue

\* The classifier connect_attested_ws passes to connect_ws.
AttestedOnError(e) ==
    IF e = "Intermittent" THEN Continue ELSE Break(WebSocketConnect(e))

\* The decisions on_error may take on an error of class e.
OnError(c, e) ==
    IF kind[c] = "attested"
    THEN {AttestedOnError(e)}
    ELSE {Continue} \cup {Break(p) : p \in CallerPayloads}

\* The closure with a slip: on_error's decision is dropped.
ClosureIgnoringBreak(d) == Continue

\* The closure connect_ws hands to route::connect: it converts the error,
\* calls on_error and returns on_error's decision d.
OnErrorClosure(d) == d

\* The attempt on the current route fails with an error of class e, and
\* on_error decides d.
AttemptFails(c, e, d) ==
    /\ pc[c] = "connect"
    /\ idx[c] >= 1
    /\ d \in OnError(c, e)
    /\ error' = e
    /\ classified' = [classified EXCEPT ![c] = @ + 1]
    /\ brk' = [brk EXCEPT ![c] = IF d.flow = "Break" THEN d.payload ELSE @]
    /\ IF OnErrorClosure(d).flow = "Break"
       THEN /\ Resolve(c, FatalConnect(OnErrorClosure(d).payload), updates[c])
            /\ UNCHANGED idx
       ELSE /\ LET ups == Append(updates[c], Outcome(routes[c][idx[c]], FALSE))
               IN  IF idx[c] < Len(routes[c])
                   THEN /\ idx' = [idx EXCEPT ![c] = @ + 1]
                        /\ updates' = [updates EXCEPT ![c] = ups]
                        /\ event' = NoEvent
                        /\ UNCHANGED <<routes, result, finishedAt, readers,
                                       queue, pc>>
                   ELSE /\ Resolve(c, AllAttemptsFailed, ups)
                        /\ UNCHANGED idx
    /\ UNCHANGED <<connect_params, now,
                   record, writer, kind, startedAt, timerStart>>

(* ------------------------- connect_attested_ws ------------------------ *)

\* The map_err with a slip: every error becomes ConnectionTimedOut.
MapErrCollapsing(res) == ConnectionTimedOut

\* The map_err of connect_attested_ws, on an error result of connect_ws.
MapErr(res) ==
    IF res.tag = "FatalConnect" THEN res.payload ELSE ConnectionTimedOut

\* The call returns v to its caller; nothing of the call is left.
Return(c, v) ==
    /\ event' = v
    /\ error' = NoPayload
    /\ pc' = [pc EXCEPT ![c] = "done"]
    /\ kind' = [kind EXCEPT ![c] = "none"]
    /\ routes' = [routes EXCEPT ![c] = <<>>]
    /\ idx' = [idx EXCEPT ![c] = 0]
    /\ updates' = [updates EXCEPT ![c] = <<>>]
    /\ result' = [result EXCEPT ![c] = NoResult]
    /\ startedAt' = [startedAt EXCEPT ![c] = 0]
    /\ timerStart' = [timerStart EXCEPT ![c] = 0]
    /\ finishedAt' = [finishedAt EXCEPT ![c] = 0]
    /\ brk' = [brk EXCEPT ![c] = NoPayload]
    /\ classified' = [classified EXCEPT ![c] = 0]

\* connect_ws returns res. A direct caller gets it as it is;
\* connect_attested_ws returns a mapped error at once, and goes on to the
\* handshake with a connection.
ReturnWs(c, res) ==
    IF kind[c] = "ws"
    THEN Return(c, WsReturn(c, res, updates[c]))
    ELSE IF res.tag = "Ok"
         THEN /\ pc' = [pc EXCEPT ![c] = "handshake"]
              /\ result' = [result EXCEPT ![c] = res]
              /\ event' = NoEvent
              /\ error' = NoPayload
              /\ UNCHANGED <<kind, routes, idx, updates, startedAt,
                             timerStart, finishedAt, brk, classified>>
         ELSE Return(c, AttestedReturn(c, AttestedErr(MapErr(res)), updates[c]))

\* Timeout with a slip: the updates collected so far are merged on the way out.
TimeoutMerging(c) ==
    /\ pc[c] = "connect"
    /\ now >= timerStart[c] + ConnectTimeout
    /\ readers' = readers \ {c}
    /\ record' = ApplyOutcomeUpdates(record, updates[c], now)
    /\ ReturnWs(c, TimeoutResult(ConnectTimeout))
    /\ UNCHANGED <<connect_params, now, writer, queue>>

\* Timeout with a slip: the deadline counts from the call, lock wait included.
TimeoutFromCall(c) ==
    /\ pc[c] = "connect"
    /\ now >= startedAt[c] + ConnectTimeout
    /\ readers' = readers \ {c}
    /\ ReturnWs(c, TimeoutResult(ConnectTimeout))
    /\ UNCHANGED <<connect_params, now, record, writer, queue>>

\* Timeout with a slip: the read guard outlives the return.
TimeoutKeepingReadGuard(c) ==
    /\ pc[c] = "connect"
    /\ now >= timerStart[c] + ConnectTimeout
    /\ ReturnWs(c, TimeoutResult(ConnectTimeout))
    /\ UNCHANGED <<connect_params, now, record, readers, writer, queue>>

\* The deadline elapsed before the attempt resolved: the call returns the
\* Timeout error at once; its read guard is dropped on return.
Timeout(c) ==
    /\ pc[c] = "connect"
    /\ now >= timerStart[c] + ConnectTimeout
    /\ readers' = readers \ {c}
    /\ ReturnWs(c, TimeoutResult(ConnectTimeout))
    /\ UNCHANGED <<connect_params, now, record, writer, queue>>

\* The write lock is granted (this.write()).
AcquireWrite(c) ==
    /\ pc[c] = "write"
    /\ CanWrite(c)
    /\ queue' = Tail(queue)
    /\ writer' = {c}
    /\ pc' = [pc EXCEPT ![c] = "merge"]
    /\ event' = NoEvent
    /\ error' = NoPayload
    /\ UNCHANGED <<connect_params, now, record, readers, locals>>

\* Merge with a slip: an error result is returned before the merge.
MergeAfterResult(c) ==
    /\ pc[c] = "merge"
    /\ record' = IF result[c].tag = "Ok"
                 THEN ApplyOutcomeUpdates(record, updates[c], finishedAt[c])
                 ELSE record
    /\ writer' = {}
    /\ ReturnWs(c, result[c])
    /\ UNCHANGED <<connect_params, now, readers, queue>>

\* Merge with a slip: only the failure outcomes are applied.
MergeFailuresOnly(c) ==
    /\ pc[c] = "merge"
    /\ record' = ApplyOutcomeUpdates(
                     record, SelectSeq(updates[c], LAMBDA u : ~u.success),
                     finishedAt[c])
    /\ writer' = {}
    /\ ReturnWs(c, result[c])
    /\ UNCHANGED <<connect_params, now, readers, queue>>

\* The updates are applied to the record, the write guard is dropped and
\* connect_ws returns its result.
Merge(c) ==
    /\ pc[c] = "merge"
    /\ record' = ApplyOutcomeUpdates(record, updates[c], finishedAt[c])
    /\ writer' = {}
    /\ ReturnWs(c, result[c])
    /\ UNCHANGED <<connect_params, now, readers, queue>>

\* Handshake with a slip: after a failed handshake the call connects again.
HandshakeRetrying(c, ok) ==
    /\ pc[c] = "handshake"
    /\ IF ok
       THEN /\ Return(c, AttestedReturn(c, AttestedOk(result[c].route),
                                        updates[c]))
            /\ UNCHANGED queue
       ELSE /\ pc' = [pc EXCEPT ![c] = "read"]
            /\ queue' = Append(queue, c)
            /\ updates' = [updates EXCEPT ![c] = <<>>]
            /\ result' = [result EXCEPT ![c] = NoResult]
            /\ classified' = [classified EXCEPT ![c] = 0]
            /\ event' = NoEvent
            /\ error' = NoPayload
            /\ UNCHANGED <<kind, routes, idx, startedAt, timerStart,
                           finishedAt, brk>>
    /\ UNCHANGED <<connect_params, now, record, readers, writer>>

\* Handshake with a slip: a failed handshake counts as the route's failure.
HandshakeRecordingFailure(c, ok) ==
    /\ pc[c] = "handshake"
    /\ Return(c, AttestedReturn(c,
                                 IF ok THEN AttestedOk(result[c].route)
                                       ELSE AttestedErr(HandshakeError),
                                 updates[c]))
    /\ record' = IF ok
                 THEN record
                 ELSE RecordOutcome(record, result[c].route, FALSE, now)
    /\ UNCHANGED <<connect_params, now, lockVars>>

\* AttestedConnection::connect succeeds (ok) or fails on the connection, and
\* connect_attested_ws returns.
Handshake(c, ok) ==
    /\ pc[c] = "handshake"
    /\ Return(c, AttestedReturn(c,
                                 IF ok THEN AttestedOk(result[c].route)
                                       ELSE AttestedErr(HandshakeError),
                                 updates[c]))
    /\ UNCHANGED <<connect_params, now, record, lockVars>>

(* ---------------------------- virtual time ---------------------------- *)

\* A step some call can take without waiting for I/O or for a timer.
Runnable ==
    \E c \in Calls :
        \/ pc[c] = "read" /\ CanRead(c)
        \/ pc[c] = "write" /\ CanWrite(c)
        \/ pc[c] = "merge"
        \/ pc[c] = "connect" /\ routes[c] = <<>>

\* The paused clock advances only when every task is waiting, and never
\* past a pending deadline.
Tick ==
    /\ ~Runnable
    /\ now < MaxTime \/ \E c \in Calls : pc[c] = "connect"
    /\ \A c \in Calls : pc[c] = "connect" => now < timerStart[c] + ConnectTimeout
    /\ now' = now + 1
    /\ event' = NoEvent
    /\ error' = NoPayload
    /\ UNCHANGED <<connect_params, record, lockVars, pc, locals>>

\* The steps of connect_ws.
ConnectWs ==
    \/ \E c \in Calls, rs \in SUBSET Routes : AcquireRead(c, rs)
    \/ \E c \in Calls : NoRoutes(c)
    \/ \E c \in Calls : AttemptSucceeds(c)
    \/ \E c \in Calls, e \in ErrorClasses :
           \E d \in OnError(c, e) : AttemptFails(c, e, d)
    \/ \E c \in Calls : Timeout(c)
    \/ \E c \in Calls : AcquireWrite(c)
    \/ \E c \in Calls : Merge(c)

\* Callers that call connect_ws directly, each with a classifier of its own.
Next ==
    \/ \E c \in Calls : Call(c, "ws")
    \/ ConnectWs
    \/ Tick

Spec == Init /\ [][Next]_vars

\* The runtime polls every task that can go on, and its timers fire: a step
\* of connect_ws that needs no answer from the network is taken in the end.
\* An attempt on a route may hang for ever, and nobody has to call.
Fairness ==
    WF_vars(\/ Tick
            \/ \E c \in Calls :
                  \/ \E rs \in SUBSET Routes : AcquireRead(c, rs)
                  \/ NoRoutes(c)
                  \/ Timeout(c)
                  \/ AcquireWrite(c)
                  \/ Merge(c))

\* Callers of connect_ws whose on_error continues on an Intermittent error
\* and breaks on a Fatal one.
NextFair ==
    \/ \E c \in Calls : Call(c, "ws")
    \/ \E c \in Calls, rs \in SUBSET Routes : AcquireRead(c, rs)
    \/ \E c \in Calls : NoRoutes(c)
    \/ \E c \in Calls : AttemptSucceeds(c)
    \/ \E c \in Calls : AttemptFails(c, "Intermittent", Continue)
    \/ \E c \in Calls : AttemptFails(c, "Fatal", Break("E1"))
    \/ \E c \in Calls : Timeout(c)
    \/ \E c \in Calls : AcquireWrite(c)
    \/ \E c \in Calls : Merge(c)
    \/ Tick

SpecFair == Init /\ [][NextFair]_vars /\ Fairness

\* Callers that call connect_attested_ws.
NextAttested ==
    \/ \E c \in Calls : Call(c, "attested")
    \/ ConnectWs
    \/ \E c \in Calls, ok \in BOOLEAN : Handshake(c, ok)
    \/ Tick

SpecAttested == Init /\ [][NextAttested]_vars

(* ------------------------- the scorer on its own ---------------------- *)

\* The connect_params a Config may carry: the suggested ones, and small ones.
ParamChoices ==
    {SuggestedConnectParams} \cup
    [age_cutoff : 1..MaxParam,
     cooldown_growth_factor : 1..MaxParam,
     max_count : 1..MaxParam,
     max_delay : 1..MaxParam,
     count_growth_factor : 1..MaxParam]

\* ConnectionOutcomes::new(connect_params), for any connect_params.
InitScorer ==
    /\ connect_params \in ParamChoices
    /\ now = 0
    /\ record = EmptyRecord
    /\ readers = {}
    /\ writer = {}
    /\ queue = <<>>
    /\ pc = [c \in Calls |-> "idle"]
    /\ kind = [c \in Calls |-> "none"]
    /\ routes = [c \in Calls |-> <<>>]
    /\ idx = [c \in Calls |-> 0]
    /\ updates = [c \in Calls |-> <<>>]
    /\ result = [c \in Calls |-> NoResult]
    /\ startedAt = [c \in Calls |-> 0]
    /\ timerStart = [c \in Calls |-> 0]
    /\ finishedAt = [c \in Calls |-> 0]
    /\ brk = [c \in Calls |-> NoPayload]
    /\ classified = [c \in Calls |-> 0]
    /\ event = NoEvent
    /\ error = NoPayload

\* One outcome for the route r is recorded at the current time.
ApplyOutcome(r, success) ==
    /\ record' = RecordOutcome(record, r, success, now)
    /\ UNCHANGED <<connect_params, now, lockVars, pc, locals, event, error>>

\* Time passes between two outcomes.
ScorerTick ==
    /\ now < MaxClock
    /\ now' = now + 1
    /\ UNCHANGED <<connect_params, record, lockVars, pc, locals, event, error>>

NextScorer ==
    \/ \E r \in Routes, success \in BOOLEAN : ApplyOutcome(r, success)
    \/ ScorerTick

SpecScorer == InitScorer /\ [][NextScorer]_vars

(* ============================ the claims ============================== *)

\* The call c returns in this step.
Returns(c) == event'.call = c /\ event'.kind \in {"ws", "attested"}

\* The attempt of the call c resolves in this step, before the deadline.
Resolves(c) == event'.call = c /\ event'.kind = "resolved"

\* The call c returns in this step straight out of the timeout-wrapped
\* attempt: its deadline elapsed.
TimesOut(c) == pc[c] = "connect" /\ Returns(c)

\* C1: when the deadline of a connect_ws call elapses before its attempt
\* resolves, the call returns Timeout without ever holding the write lock,
\* and the step leaves attempts_record exactly as it was, whatever updates
\* the attempt had collected.
C1_TimeoutMergesNothing ==
    [][\A c \in Calls :
          (Returns(c) /\ event'.ws.tag = "Timeout") =>
              /\ pc[c] = "connect"
              /\ c \notin writer /\ writer' = writer
              /\ record' = record]_vars

\* A call timed out after it had collected a failure outcome, and the record
\* holds nothing for that route.
C1_Witness ==
    /\ event.kind = "ws"
    /\ event.ws.tag = "Timeout"
    /\ event.updates # <<>>
    /\ \A i \in DOMAIN event.updates : event.updates[i].route \notin DOMAIN record

\* C2: when every route attempt of a call hangs (its first attempt is still
\* in flight at the deadline and on_error was never invoked), connect_ws
\* returns Timeout{attempt_duration = connect_timeout} exactly
\* connect_timeout after the call was made.
C2_TimeoutExactlyAfterCall ==
    [][\A c \in Calls :
          (TimesOut(c) /\ idx[c] = 1 /\ classified[c] = 0) =>
              /\ event'.ws = TimeoutResult(ConnectTimeout)
              /\ now = startedAt[c] + ConnectTimeout]_vars

\* The routes of the call c that no attempt has been started on.
Untried(c) == SubSeq(routes[c], idx[c] + 1, Len(routes[c]))

\* Between the resolution of its attempt and its return, the call c keeps
\* its result and updates and starts no attempt.
Settled(c) ==
    pc[c] \in {"write", "merge"} =>
        \/ Returns(c)
        \/ /\ idx'[c] = idx[c]
           /\ result'[c] = result[c]
           /\ updates'[c] = updates[c]
           /\ ~Resolves(c)

\* The update u is in the record rec as of the time t.
Recorded(rec, u, t) ==
    /\ u.route \in DOMAIN rec
    /\ rec[u.route].last = t
    /\ u.success <=> rec[u.route].weight = 0

\* C3: when the classifier returns Break(E) for a route's failure, the
\* attempt resolves at once to FatalConnect(E), the routes after it stay
\* untried for the rest of the call, and the call returns FatalConnect(E).
C3_BreakAborts ==
    [][\A c \in Calls :
          /\ (brk'[c] # brk[c] /\ brk'[c] # NoPayload) =>
                 /\ event' = Resolution(c, FatalConnect(brk'[c]), updates[c],
                                        Untried(c))
                 /\ pc'[c] = "write"
                 /\ idx'[c] = idx[c]
          /\ brk[c] # NoPayload =>
                 /\ Settled(c)
                 /\ Returns(c) => event'.ws = FatalConnect(brk[c])]_vars

\* The classifier broke with E2 on a route while a later route was untried.
C3_Witness ==
    /\ event.kind = "resolved"
    /\ event.ws = FatalConnect("E2")
    /\ event.untried # <<>>

\* C4: a call that returns FatalConnect returns it from the merge, holding
\* the write lock, and the step has recorded a failure for each route that
\* was attempted before the break.
C4_BreakStillMerges ==
    [][\A c \in Calls :
          (Returns(c) /\ event'.ws.tag = "FatalConnect") =>
              /\ pc[c] = "merge"
              /\ writer = {c}
              /\ Len(updates[c]) = idx[c] - 1
              /\ \A i \in DOMAIN updates[c] :
                    /\ ~updates[c][i].success
                    /\ Recorded(record', updates[c][i], finishedAt[c])]_vars

\* A call returned FatalConnect after a failure on an earlier route, and the
\* record holds that failure.
C4_Witness ==
    /\ event.kind = "ws"
    /\ event.ws.tag = "FatalConnect"
    /\ event.updates # <<>>
    /\ \A i \in DOMAIN event.updates :
          /\ event.updates[i].route \in DOMAIN record
          /\ record[event.updates[i].route].weight > 0

\* C5: when the first M ranked routes fail and are classified Continue and
\* route M+1 succeeds, the attempt resolves to that route's connection with
\* M failure outcomes and one success, no later route is attempted, and the
\* call returns that result after merging exactly those outcomes.
C5_ContinueThenSucceed ==
    [][\A c \in Calls :
          /\ (Resolves(c) /\ event'.ws.tag = "Ok") =>
                 LET M == idx[c] - 1
                 IN  /\ M >= 0 /\ M < Len(routes[c])
                     /\ classified[c] = M
                     /\ event'.ws = OkResult(routes[c][M + 1])
                     /\ event'.updates =
                            [i \in 1..(M + 1) |-> Outcome(routes[c][i], i = M + 1)]
                     /\ event'.untried = Untried(c)
                     /\ result'[c] = event'.ws
                     /\ updates'[c] = event'.updates
                     /\ idx'[c] = idx[c]
          /\ result[c].tag = "Ok" => Settled(c)
          /\ (Returns(c) /\ event'.ws.tag = "Ok") =>
                 /\ pc[c] = "merge"
                 /\ event'.ws = result[c]
                 /\ \A i \in DOMAIN updates[c] :
                        Recorded(record', updates[c][i], finishedAt[c])]_vars

\* A call returned the connection of its second route, and the record holds
\* the failure of the first and the success of the second.
C5_Witness ==
    /\ event.kind = "ws"
    /\ event.ws.tag = "Ok"
    /\ Len(event.updates) = 2
    /\ event.updates[2].route = event.ws.route
    /\ record[event.updates[1].route].weight > 0
    /\ record[event.updates[2].route].weight = 0

\* C6: the attempt of a call with at least one route resolves to
\* AllAttemptsFailed exactly when the last ranked route has failed and every
\* route's failure was classified Continue; the call then returns
\* AllAttemptsFailed with a failure recorded for every route.
C6_AllAttemptsFailed ==
    [][\A c \in Calls :
          /\ Resolves(c) =>
                 (event'.ws.tag = "AllAttemptsFailed" <=>
                      /\ routes[c] # <<>>
                      /\ brk'[c] = NoPayload
                      /\ classified'[c] = Len(routes[c])
                      /\ event'.updates =
                             [i \in 1..Len(routes[c]) |-> Outcome(routes[c][i], FALSE)])
          /\ result[c].tag = "AllAttemptsFailed" => Settled(c)
          /\ (Returns(c) /\ event'.ws.tag = "AllAttemptsFailed") =>
                 /\ pc[c] = "merge"
                 /\ Len(updates[c]) = idx[c]
                 /\ \A i \in DOMAIN updates[c] :
                        /\ ~updates[c][i].success
                        /\ Recorded(record', updates[c][i], finishedAt[c])]_vars

\* A call returned AllAttemptsFailed after two routes, and the record holds a
\* failure for both.
C6_Witness ==
    /\ event.kind = "ws"
    /\ event.ws.tag = "AllAttemptsFailed"
    /\ Len(event.updates) = 2
    /\ \A i \in 1..2 : record[event.updates[i].route].weight > 0

\* C7: a call whose provider yields no routes resolves to NoResolvedRoutes
\* with no attempt made and the classifier never invoked, and returns it
\* leaving the record as it was; no other call gets NoResolvedRoutes.
C7_NoResolvedRoutes ==
    [][\A c \in Calls :
          /\ (pc[c] = "connect" /\ routes[c] = <<>> /\ pc'[c] # "connect") =>
                 /\ event' = Resolution(c, NoResolvedRoutes, <<>>, <<>>)
                 /\ idx[c] = 0 /\ classified[c] = 0
          /\ (Resolves(c) /\ event'.ws.tag = "NoResolvedRoutes") =>
                 routes[c] = <<>>
          /\ result[c].tag = "NoResolvedRoutes" => Settled(c)
          /\ (Returns(c) /\ event'.ws.tag = "NoResolvedRoutes") =>
                 /\ idx[c] = 0 /\ classified[c] = 0 /\ updates[c] = <<>>
                 /\ record' = record]_vars

\* A call returned NoResolvedRoutes while the record held another call's
\* outcomes.
C7_Witness ==
    /\ event.kind = "ws"
    /\ event.ws.tag = "NoResolvedRoutes"
    /\ record # EmptyRecord

\* The calls whose attempt has resolved and whose merge is still to come.
Pending == {c \in Calls : pc[c] \in {"write", "merge"}}

\* C8: merges commute: whichever of two calls waiting to merge gets the
\* write lock first, the record after both merges is the same.
C8_MergesCommute ==
    \A c1, c2 \in Pending :
        ApplyOutcomeUpdates(
            ApplyOutcomeUpdates(record, updates[c1], finishedAt[c1]),
            updates[c2], finishedAt[c2])
      = ApplyOutcomeUpdates(
            ApplyOutcomeUpdates(record, updates[c2], finishedAt[c2]),
            updates[c1], finishedAt[c1])

\* C9: concurrent calls do not hold each other back from the read lock: while
\* a call waits in this.read(), either a merge is in progress or the request
\* at the head of the lock's queue can be granted at once; a read request
\* never has to wait for another call's route iteration to end.
C9_ReadNeverWaitsForIteration ==
    \A c \in Calls :
        pc[c] = "read" =>
            \/ writer # {}
            \/ CanRead(Head(queue)) /\ pc[Head(queue)] = "read"
            \/ CanWrite(Head(queue)) /\ pc[Head(queue)] = "write"

\* The errors the connection stage of connect_attested_ws may return.
ConnectionStageErrors ==
    {ConnectionTimedOut, WebSocketConnect("RetryAt"), WebSocketConnect("Fatal")}

\* C10: connect_attested_ws returns ConnectionTimedOut when connect_ws ends
\* in Timeout, NoResolvedRoutes or AllAttemptsFailed, and returns the
\* classifier's own Break payload when it ends in FatalConnect; the
\* connection stage returns no other error.
C10_MapErr ==
    [][\A c \in Calls :
          (Returns(c) /\ pc[c] \in {"connect", "merge"}) =>
              /\ event'.kind = "attested"
              /\ event'.att.tag = "Err"
              /\ event'.att.err \in ConnectionStageErrors
              /\ pc[c] = "connect" => event'.att.err = ConnectionTimedOut
              /\ pc[c] = "merge" =>
                    /\ result[c].tag \in
                           {"NoResolvedRoutes", "AllAttemptsFailed", "FatalConnect"}
                    /\ result[c].tag # "FatalConnect" =>
                           event'.att.err = ConnectionTimedOut
                    /\ result[c].tag = "FatalConnect" =>
                           /\ event'.att.err = brk[c]
                           /\ event'.att.err = result[c].payload]_vars

\* connect_attested_ws returned the classifier's RetryAt error.
C10_Witness ==
    /\ event.kind = "attested"
    /\ event.att = AttestedErr(WebSocketConnect("RetryAt"))

\* C11: in connect_attested_ws a route failure classified Intermittent makes
\* the attempt go on to the next route (or, after the last route, resolve to
\* AllAttemptsFailed) and is never returned to the caller; a failure
\* classified RetryAt or Fatal resolves the attempt at once, the later routes
\* stay untried, and the call returns the wrapped WebSocketConnect error.
C11_AttestedClassifier ==
    [][\A c \in Calls :
          /\ (classified'[c] # classified[c] /\ error' = "Intermittent") =>
                 /\ brk'[c] = NoPayload
                 /\ updates'[c] =
                        Append(updates[c], Outcome(routes[c][idx[c]], FALSE))
                 /\ IF idx[c] < Len(routes[c])
                    THEN /\ pc'[c] = "connect"
                         /\ idx'[c] = idx[c] + 1
                         /\ routes'[c] = routes[c]
                    ELSE /\ Resolves(c)
                         /\ event'.ws = AllAttemptsFailed
          /\ (classified'[c] # classified[c] /\ error' \in {"RetryAt", "Fatal"}) =>
                 /\ brk'[c] = WebSocketConnect(error')
                 /\ Resolves(c)
                 /\ event'.ws = FatalConnect(WebSocketConnect(error'))
                 /\ event'.untried = Untried(c)
                 /\ idx'[c] = idx[c]
          /\ brk[c] # NoPayload =>
                 /\ Settled(c)
                 /\ Returns(c) => event'.att = AttestedErr(brk[c])
          /\ Returns(c) =>
                 event'.att.err # WebSocketConnect("Intermittent")]_vars

\* connect_attested_ws returned the wrapped Fatal error of its second route,
\* after an Intermittent failure on the first.
C11_Witness ==
    /\ event.kind = "attested"
    /\ event.att = AttestedErr(WebSocketConnect("Fatal"))
    /\ Len(event.updates) = 1
    /\ ~event.updates[1].success

\* The routes of the call c with an attempt in flight: those an attempt was
\* started on and no outcome or resolution has come for.
InFlight(c) ==
    IF pc[c] = "connect"
    THEN {routes[c][i] : i \in (classified[c] + 1)..idx[c]}
    ELSE {}

\* C12: within one call the routes are attempted one at a time in the
\* scorer's ranked order: the call's routes are in ascending cooldown when it
\* starts on the first of them, at most one attempt is in flight at any
\* moment, and the attempt on the next route starts only in the step in which
\* the previous route's attempt fails and is classified Continue.
C12_OneAttemptAtATime ==
    [][\A c \in Calls :
          /\ Cardinality(InFlight(c)) <= 1
          /\ (pc[c] = "read" /\ pc'[c] = "connect") =>
                 /\ idx'[c] = (IF routes'[c] = <<>> THEN 0 ELSE 1)
                 /\ \A i, j \in DOMAIN routes'[c] :
                        i < j => /\ routes'[c][i] # routes'[c][j]
                                 /\ CooldownFor(record, routes'[c][i], now)
                                        <= CooldownFor(record, routes'[c][j], now)
          /\ (pc[c] = "connect" /\ pc'[c] = "connect") =>
                 /\ routes'[c] = routes[c]
                 /\ idx'[c] \in {idx[c], idx[c] + 1}
                 /\ idx'[c] = idx[c] + 1 =>
                        /\ idx'[c] <= Len(routes[c])
                        /\ error' # NoPayload
                        /\ classified'[c] = idx[c]
                        /\ brk'[c] = NoPayload
                        /\ updates'[c] =
                               Append(updates[c],
                                      Outcome(routes[c][idx[c]], FALSE))
          /\ pc[c] # "connect" => idx'[c] <= idx[c] \/ pc[c] = "read"]_vars

\* A call is attempting its second route, ranked behind the first for its
\* longer cooldown, after the attempt on the first failed.
C12_Witness ==
    \E c \in Calls :
        /\ pc[c] = "connect"
        /\ idx[c] = 2
        /\ InFlight(c) = {routes[c][2]}
        /\ CooldownFor(record, routes[c][1], now)
               < CooldownFor(record, routes[c][2], now)

\* C13: after any sequence of recordOutcome operations every route's failure
\* weight is between 0 and max_count and its cooldown is at most max_delay; a
\* route with zero weight (no record, or its last outcome a success) has zero
\* cooldown.
C13_WeightAndCooldownBounded ==
    \A r \in Routes :
        /\ r \in DOMAIN record =>
               record[r].weight \in 0..connect_params.max_count
        /\ PriorWeight(record, r, now) \in 0..connect_params.max_count
        /\ CooldownFor(record, r, now) \in 0..connect_params.max_delay
        /\ (r \notin DOMAIN record \/ PriorWeight(record, r, now) = 0) =>
               CooldownFor(record, r, now) = 0
        /\ LET rec == RecordOutcome(record, r, TRUE, now)
           IN  /\ rec[r].weight = 0
               /\ \A t \in now..MaxClock : CooldownFor(rec, r, t) = 0

\* Under the suggested parameters a route's weight has saturated at max_count
\* and its cooldown is capped at max_delay.
C13_Witness ==
    /\ connect_params = SuggestedConnectParams
    /\ \E r \in DOMAIN record :
          /\ record[r].weight = MaxCount
          /\ CooldownBase * Pow(CooldownGrowthFactor, record[r].weight) > MaxDelay
          /\ CooldownFor(record, r, now) = MaxDelay

\* The prior weight of the route r is stale at the time t.
Stale(rec, r, t) ==
    r \in DOMAIN rec /\ t - rec[r].last > connect_params.age_cutoff

\* C14: stale history does not compound: an outcome recorded for a route more
\* than age_cutoff after the route's last update leaves what the same outcome
\* leaves on a route with no history; a failure then yields the weight of a
\* first failure.
C14_StaleHistoryDiscarded ==
    \A r \in Routes :
        Stale(record, r, now) =>
            /\ \A success \in BOOLEAN :
                   RecordOutcome(record, r, success, now)[r]
                       = RecordOutcome(EmptyRecord, r, success, now)[r]
            /\ RecordOutcome(record, r, FALSE, now)[r].weight
                   = Min(connect_params.max_count,
                         connect_params.count_growth_factor)

\* A route's weight is stale, a failure within age_cutoff would have added to
\* it, and the failure recorded now yields the weight of a first failure.
C14_Witness ==
    \E r \in Routes :
        /\ Stale(record, r, now)
        /\ record[r].weight > 0
        /\ Min(connect_params.max_count,
               record[r].weight + connect_params.count_growth_factor)
               > Min(connect_params.max_count, connect_params.count_growth_factor)
        /\ RecordOutcome(record, r, FALSE, now)[r].weight
               = connect_params.count_growth_factor

\* The write guard is held by one call at most, by a call that is applying
\* its merge, and while no call holds a read guard; the calls in route
\* iteration are the holders of the read guards, and a call in its handshake
\* holds no guard.
WriteLockOnlyForMerge ==
    /\ Cardinality(writer) <= 1
    /\ \A c \in writer : pc[c] = "merge"
    /\ writer # {} => readers = {}
    /\ \A c \in Calls :
          /\ pc[c] = "merge" <=> c \in writer
          /\ pc[c] = "connect" <=> c \in readers
          /\ pc[c] = "handshake" => c \notin writer \cup readers

\* C15: the write lock is held only while a merge is applied: no call
\* resolves routes, attempts a connection or runs its handshake while it
\* holds the write lock, the record changes only in the merge step of the
\* call that holds the write lock, no merge is applied while another call
\* holds a read guard, and so the record does not change while any call is
\* in route iteration.
C15_WriteLockOnlyForMerge ==
    /\ []WriteLockOnlyForMerge
    /\ [][/\ record' # record =>
                /\ readers = {}
                /\ \E c \in Calls :
                       /\ writer = {c}
                       /\ pc[c] = "merge"
                       /\ pc'[c] # "merge"
                       /\ writer' = {}
          /\ \A c \in Calls :
                /\ pc[c] = "connect" => record' = record
                /\ (c \in writer /\ pc'[c] # pc[c]) =>
                       /\ pc'[c] \in {"done", "handshake"}
                       /\ c \notin writer'
                       /\ record' = ApplyOutcomeUpdates(record, updates[c],
                                                        finishedAt[c])]_vars

\* A call holds the write lock for its merge while an earlier call runs its
\* handshake and a later one waits for the read lock.
C15_Witness ==
    \E c, d, e \in Calls :
        /\ writer = {c}
        /\ pc[c] = "merge"
        /\ pc[d] = "read"
        /\ pc[e] = "handshake"
        /\ record # EmptyRecord

\* A call that waits for the write lock has dropped its read guard, and a
\* call that has returned holds no guard and waits for none.
NoLockAcrossReturn ==
    \A c \in Calls :
        /\ pc[c] = "write" => c \notin readers \cup writer
        /\ pc[c] \in {"idle", "done"} =>
               /\ c \notin readers \cup writer
               /\ \A i \in DOMAIN queue : queue[i] # c

\* C16: connect_ws never deadlocks: a call drops its read guard before it
\* asks for the write lock, holds no lock after it has returned (by timeout
\* too), and under fair scheduling every call that was made returns in the
\* end, whether its routes succeed, fail or hang.
C16_EveryCallReturns ==
    /\ []NoLockAcrossReturn
    /\ \A c \in Calls : (pc[c] # "idle") ~> (pc[c] = "done")

\* All the calls have returned, the last of them by timeout after another
\* call's merge, and the lock is free.
C16_Witness ==
    /\ \A c \in Calls : pc[c] = "done"
    /\ event.kind = "ws"
    /\ event.ws.tag = "Timeout"
    /\ record # EmptyRecord
    /\ readers = {} /\ writer = {} /\ queue = <<>>

\* C17: in connect_attested_ws the handshake starts only when connect_ws has
\* returned a connection (after its merge, the lock released), once per call
\* at most; it ends the call, with the attested connection or with the
\* handshake's own error, and no route is attempted after it has started.
C17_HandshakeOnceAfterConnect ==
    [][\A c \in Calls :
          /\ (pc'[c] = "handshake" /\ pc[c] # "handshake") =>
                 /\ pc[c] = "merge"
                 /\ result[c].tag = "Ok"
                 /\ result'[c] = result[c]
                 /\ c \notin writer' \cup readers'
          /\ pc[c] = "handshake" =>
                 /\ result[c].tag = "Ok"
                 /\ idx'[c] <= idx[c]
                 /\ classified'[c] <= classified[c]
                 /\ pc'[c] \in {"handshake", "done"}
                 /\ pc'[c] = "done" =>
                        /\ Returns(c)
                        /\ event'.att \in {AttestedOk(result[c].route),
                                           AttestedErr(HandshakeError)}
          /\ pc[c] = "done" => pc'[c] = "done"
          /\ (Returns(c) /\ event'.att.tag = "Ok") => pc[c] = "handshake"
          /\ (Returns(c) /\ event'.att.err = HandshakeError) =>
                 pc[c] = "handshake"]_vars

\* connect_attested_ws returned the handshake's error on the connection of
\* its second route.
C17_Witness ==
    /\ event.kind = "attested"
    /\ event.att = AttestedErr(HandshakeError)
    /\ Len(event.updates) = 2
    /\ event.updates[2].success

\* C18: Timeout arises only out of route iteration, and at the deadline
\* counted from the start of the attempt: a call that waits for the read lock
\* does not time out, and a call whose attempt resolved before the deadline
\* returns what the attempt resolved to, never Timeout, however long it has
\* waited for the write lock.
C18_TimeoutOnlyInIteration ==
    [][\A c \in Calls :
          /\ (Returns(c) /\ event'.ws.tag = "Timeout") =>
                 /\ pc[c] = "connect"
                 /\ result[c] = NoResult
                 /\ now = timerStart[c] + ConnectTimeout
                 /\ event'.ws = TimeoutResult(ConnectTimeout)
          /\ pc[c] = "read" => ~Returns(c)
          /\ (pc[c] = "read" /\ pc'[c] = "connect") => timerStart'[c] = now
          /\ pc[c] \in {"write", "merge"} =>
                 /\ result[c].tag \notin {"None", "Timeout"}
                 /\ finishedAt[c] <= timerStart[c] + ConnectTimeout
                 /\ Returns(c) => event'.ws = result[c]]_vars

\* A call whose attempt resolved before the deadline holds the write lock
\* for its merge after the deadline has passed.
C18_Witness ==
    \E c \in Calls :
        /\ pc[c] = "merge"
        /\ finishedAt[c] < timerStart[c] + ConnectTimeout
        /\ now >= timerStart[c] + ConnectTimeout

\* The results connect_ws returns after a merge.
MergedResults == {"Ok", "FatalConnect", "AllAttemptsFailed", "NoResolvedRoutes"}

\* C19: merge precedes return: the step in which connect_ws returns a
\* connection, FatalConnect, AllAttemptsFailed or NoResolvedRoutes has applied
\* all the updates the call collected to the record, so a call started after
\* the return ranks its routes against a record that has them.
C19_MergePrecedesReturn ==
    [][\A c \in Calls :
          /\ (Returns(c) /\ event'.ws.tag \in MergedResults) =>
                 /\ pc[c] = "merge"
                 /\ event'.updates = updates[c]
                 /\ record' = ApplyOutcomeUpdates(record, updates[c],
                                                  finishedAt[c])
                 /\ \A i \in DOMAIN updates[c] :
                        Recorded(record', updates[c][i], finishedAt[c])
          /\ (pc[c] = "read" /\ pc'[c] = "connect") =>
                 /\ record' = record
                 /\ \A i, j \in DOMAIN routes'[c] :
                        i < j => CooldownFor(record', routes'[c][i], now)
                                    <= CooldownFor(record', routes'[c][j], now)
          /\ record' # record =>
                 Returns(c) \/ pc'[c] = pc[c]]_vars

\* A call returned a connection with its outcomes in the record while a
\* later call had not yet been made.
C19_Witness ==
    /\ event.kind = "ws"
    /\ event.ws.tag = "Ok"
    /\ \A i \in DOMAIN event.updates :
          /\ event.updates[i].route \in DOMAIN record
          /\ event.updates[i].success
                 <=> record[event.updates[i].route].weight = 0
    /\ \E d \in Calls : pc[d] = "idle"

\* C20: a failed handshake does not touch the record: the step in which
\* connect_attested_ws returns the handshake's error leaves the record as it
\* is, and when no other call has been made the record then holds the success
\* merged for the route of the connection and no failure for it.
C20_HandshakeLeavesRecord ==
    [][\A c \in Calls :
          (Returns(c) /\ event'.att = AttestedErr(HandshakeError)) =>
              /\ pc[c] = "handshake"
              /\ record' = record
              /\ (\A d \in Calls \ {c} : pc[d] = "idle") =>
                     /\ Recorded(record',
                                 Outcome(result[c].route, TRUE), finishedAt[c])
                     /\ CooldownFor(record', result[c].route, now) = 0]_vars

\* connect_attested_ws returned the handshake's error while the record holds
\* the success of the route of the connection.
C20_Witness ==
    /\ event.kind = "attested"
    /\ event.att = AttestedErr(HandshakeError)
    /\ event.updates # <<>>
    /\ LET u == event.updates[Len(event.updates)]
       IN  /\ u.success
           /\ u.route \in DOMAIN record
           /\ record[u.route].weight = 0

====
